---- MODULE Spec2Model ----
(***************************************************************************)
(* Model of the query safety gate of sql_chat (src/main.py): the text      *)
(* pipeline clean_sql -> auto_add_limit -> validate_sql, the alarm-based    *)
(* executor of run_sql, and the part of ask that classifies the outcome.    *)
(*                                                                         *)
(* A Python str is a sequence of characters (one-character strings).  The string        *)
(* methods the source calls (upper, strip, rstrip, split, join, count,     *)
(* index, in, startswith, int) are operators that compute what Python      *)
(* computes on the characters of the model's alphabet.                     *)
(***************************************************************************)
EXTENDS Integers, Sequences, FiniteSets, TLC

(***************************************************************************)
(* Python string primitives                                                *)
(***************************************************************************)

\* the upper-case letter of each lower-case letter
UpperOf ==
  "a" :> "A" @@ "b" :> "B" @@ "c" :> "C" @@ "d" :> "D" @@ "e" :> "E" @@
  "f" :> "F" @@ "g" :> "G" @@ "h" :> "H" @@ "i" :> "I" @@ "j" :> "J" @@
  "k" :> "K" @@ "l" :> "L" @@ "m" :> "M" @@ "n" :> "N" @@ "o" :> "O" @@
  "p" :> "P" @@ "q" :> "Q" @@ "r" :> "R" @@ "s" :> "S" @@ "t" :> "T" @@
  "u" :> "U" @@ "v" :> "V" @@ "w" :> "W" @@ "x" :> "X" @@ "y" :> "Y" @@
  "z" :> "Z"

\* the lower-case letter of each upper-case letter
LowerOf ==
  "A" :> "a" @@ "B" :> "b" @@ "C" :> "c" @@ "D" :> "d" @@ "E" :> "e" @@
  "F" :> "f" @@ "G" :> "g" @@ "H" :> "h" @@ "I" :> "i" @@ "J" :> "j" @@
  "K" :> "k" @@ "L" :> "l" @@ "M" :> "m" @@ "N" :> "n" @@ "O" :> "o" @@
  "P" :> "p" @@ "Q" :> "q" @@ "R" :> "r" @@ "S" :> "s" @@ "T" :> "t" @@
  "U" :> "u" @@ "V" :> "v" @@ "W" :> "w" @@ "X" :> "x" @@ "Y" :> "y" @@
  "Z" :> "z"

\* c.upper() for one character
UpperChar(c) == IF c \in DOMAIN UpperOf THEN UpperOf[c] ELSE c

\* c.lower() for one character
LowerChar(c) == IF c \in DOMAIN LowerOf THEN LowerOf[c] ELSE c

\* s.upper()
Upper(s) == SubSeq([i \in 1..Len(s) |-> UpperChar(s[i])], 1, Len(s))

\* s.lower()
Lower(s) == SubSeq([i \in 1..Len(s) |-> LowerChar(s[i])], 1, Len(s))

\* the characters str.strip() and str.split() treat as whitespace
IsSpace(c) == c \in {" ", "\n"}

\* s starts with p at position i
MatchAt(s, p, i) ==
  /\ i >= 1
  /\ i + Len(p) - 1 <= Len(s)
  /\ \A j \in 1..Len(p) : s[i + j - 1] = p[j]

\* p in s
Contains(s, p) ==
  \/ p = <<>>
  \/ \E i \in 1..(Len(s) - Len(p) + 1) :
       s[i] = p[1] /\ SubSeq(s, i, i + Len(p) - 1) = p

\* s.index(p), for p in s: the lowest position (1-based)
RECURSIVE IndexFrom(_, _, _)
IndexFrom(s, p, i) ==
  IF i > Len(s) + 1 THEN 0
  ELSE IF MatchAt(s, p, i) THEN i
  ELSE IndexFrom(s, p, i + 1)

IndexOf(s, p) == IndexFrom(s, p, 1)

\* s.startswith(p)
StartsWith(s, p) == MatchAt(s, p, 1)

\* s[i:], 1-based
From(s, i) == SubSeq(s, i, Len(s))

\* s.lstrip()
RECURSIVE LStrip(_)
LStrip(s) ==
  IF s # <<>> /\ IsSpace(Head(s)) THEN LStrip(Tail(s)) ELSE s

\* s.rstrip()
RECURSIVE RStrip(_)
RStrip(s) ==
  IF s # <<>> /\ IsSpace(s[Len(s)]) THEN RStrip(SubSeq(s, 1, Len(s) - 1)) ELSE s

\* s.strip()
Strip(s) == LStrip(RStrip(s))

\* s.rstrip(";")
RECURSIVE RStripSemi(_)
RStripSemi(s) ==
  IF s # <<>> /\ s[Len(s)] = ";" THEN RStripSemi(SubSeq(s, 1, Len(s) - 1)) ELSE s

\* a variant that leaves the trailing semicolons out of the count
CountSemiInner(s) ==
  Cardinality({i \in 1..Len(s) : s[i] = ";" /\ \E j \in (i + 1)..Len(s) : s[j] # ";"})

\* s.count(";")
CountSemi(s) == Cardinality({i \in 1..Len(s) : s[i] = ";"})

\* s.split(sep): the list of pieces, cut at the non-overlapping occurrences
\* of sep found left to right
RECURSIVE SplitOn(_, _)
SplitOn(s, sep) ==
  IF Contains(s, sep)
    THEN LET i == IndexOf(s, sep)
         IN  <<SubSeq(s, 1, i - 1)>> \o SplitOn(From(s, i + Len(sep)), sep)
    ELSE <<s>>

\* s.split(): the list of maximal runs of non-whitespace characters
RECURSIVE SplitWs(_)
SplitWs(s) ==
  LET t == LStrip(s)
  IN  IF t = <<>> THEN <<>>
      ELSE LET n == IF \E i \in 1..Len(t) : IsSpace(t[i])
                      THEN (CHOOSE i \in 1..Len(t) :
                              /\ IsSpace(t[i])
                              /\ \A k \in 1..(i - 1) : ~IsSpace(t[k])) - 1
                      ELSE Len(t)
           IN  <<SubSeq(t, 1, n)>> \o SplitWs(From(t, n + 1))

\* " ".join(parts)
RECURSIVE JoinSpace(_)
JoinSpace(parts) ==
  IF parts = <<>> THEN <<>>
  ELSE IF Len(parts) = 1 THEN parts[1]
  ELSE parts[1] \o <<" ">> \o JoinSpace(Tail(parts))

Digits == {"0", "1", "2", "3", "4", "5", "6", "7", "8", "9"}

DigitVal(c) ==
  CASE c = "0" -> 0 [] c = "1" -> 1 [] c = "2" -> 2 [] c = "3" -> 3
    [] c = "4" -> 4 [] c = "5" -> 5 [] c = "6" -> 6 [] c = "7" -> 7
    [] c = "8" -> 8 [] c = "9" -> 9

DigitChar(d) ==
  CASE d = 0 -> "0" [] d = 1 -> "1" [] d = 2 -> "2" [] d = 3 -> "3"
    [] d = 4 -> "4" [] d = 5 -> "5" [] d = 6 -> "6" [] d = 7 -> "7"
    [] d = 8 -> "8" [] d = 9 -> "9"

\* the value of a string of digits and underscores, underscores skipped
RECURSIVE DigitsVal(_, _)
DigitsVal(s, acc) ==
  IF s = <<>> THEN acc
  ELSE IF Head(s) = "_" THEN DigitsVal(Tail(s), acc)
  ELSE DigitsVal(Tail(s), 10 * acc + DigitVal(Head(s)))

\* the body of an int literal: digits, single underscores only between digits
IsIntBody(s) ==
  /\ s # <<>>
  /\ \A i \in 1..Len(s) : s[i] \in Digits \cup {"_"}
  /\ s[1] \in Digits
  /\ s[Len(s)] \in Digits
  /\ \A i \in 1..(Len(s) - 1) : ~(s[i] = "_" /\ s[i + 1] = "_")

\* int(s): ok is FALSE where Python raises ValueError
ParseInt(s) ==
  LET signed == s # <<>> /\ s[1] \in {"+", "-"}
      body   == IF signed THEN Tail(s) ELSE s
  IN  IF IsIntBody(body)
        THEN [ok |-> TRUE,
              val |-> IF signed /\ s[1] = "-" THEN 0 - DigitsVal(body, 0)
                      ELSE DigitsVal(body, 0)]
        ELSE [ok |-> FALSE, val |-> 0]

\* f"{n}" for an int n >= 0
RECURSIVE IntToStr(_)
IntToStr(n) ==
  IF n < 10 THEN <<DigitChar(n)>>
  ELSE IntToStr(n \div 10) \o <<DigitChar(n % 10)>>

(***************************************************************************)
(* Text constants of the source                                            *)
(***************************************************************************)

K_SELECT   == <<"S", "E", "L", "E", "C", "T">>
K_INSERT   == <<"I", "N", "S", "E", "R", "T">>
K_UPDATE   == <<"U", "P", "D", "A", "T", "E">>
K_DELETE   == <<"D", "E", "L", "E", "T", "E">>
K_WITH     == <<"W", "I", "T", "H">>
K_DROP     == <<"D", "R", "O", "P">>
K_TRUNCATE == <<"T", "R", "U", "N", "C", "A", "T", "E">>
K_ALTER    == <<"A", "L", "T", "E", "R">>
K_CREATE   == <<"C", "R", "E", "A", "T", "E">>
K_GRANT    == <<"G", "R", "A", "N", "T">>
K_REVOKE   == <<"R", "E", "V", "O", "K", "E">>
K_LIMIT    == <<"L", "I", "M", "I", "T">>

\* self.max_rows, the default of __init__
max_rows == 100

\* dangerous_keywords, in the order of the list
dangerous_keywords ==
  <<K_DROP, K_TRUNCATE, K_DELETE, K_ALTER, K_CREATE, K_GRANT, K_REVOKE>>

\* the aggregate markers of validate_sql and auto_add_limit
agg_markers ==
  { <<"C", "O", "U", "N", "T", "(">>, <<"S", "U", "M", "(">>,
    <<"A", "V", "G", "(">>, <<"M", "A", "X", "(">>, <<"M", "I", "N", "(">> }

\* sql_keywords of clean_sql, in the order of the list
sql_keywords == <<K_SELECT, K_INSERT, K_UPDATE, K_DELETE, K_WITH>>

\* the commands for which auto_add_limit adds nothing
skip_cmds == {K_UPDATE, K_INSERT, K_DELETE, K_CREATE, K_DROP}

\* the backtick character (written as a name: the lexer of the tools does not
\* take a backtick inside a string)
BT == "BACKTICK"

FENCE     == <<BT, BT, BT>>
FENCE_SQL == <<BT, BT, BT, "s", "q", "l">>


(***************************************************************************)
(* validate_sql                                                            *)
(***************************************************************************)

\* the first character of the two kinds of message validate_sql builds
CROSS == "CROSS"
WARN  == "WARN"

\* the first keyword of dangerous_keywords, in list order, found in sql_upper
FirstDangerous(sql_upper) ==
  dangerous_keywords[
    CHOOSE i \in 1..Len(dangerous_keywords) :
      /\ Contains(sql_upper, dangerous_keywords[i])
      /\ \A k \in 1..(i - 1) : ~Contains(sql_upper, dangerous_keywords[k])]

\* a variant that takes a keyword only where it stands as a word of its own
HasDangerousAsWord(sql_upper) ==
  \E i \in 1..Len(dangerous_keywords) :
    \E n \in 1..Len(SplitWs(sql_upper)) :
      RStripSemi(SplitWs(sql_upper)[n]) = dangerous_keywords[i]

HasDangerous(sql_upper) ==
  \E i \in 1..Len(dangerous_keywords) : Contains(sql_upper, dangerous_keywords[i])

\* any(agg in sql_upper for agg in [...])
HasAgg(sql_upper) == \E a \in agg_markers : Contains(sql_upper, a)

\* check 4: the value int() is applied to, with ok FALSE where the try
\* block raises (IndexError of split()[0] or ValueError of int)
LimitValue(sql_upper) ==
  LET words == SplitWs(Strip(SplitOn(sql_upper, K_LIMIT)[2]))
  IN  IF words = <<>> THEN [ok |-> FALSE, val |-> 0]
      ELSE ParseInt(RStripSemi(words[1]))

\* validate_sql(sql): (is_valid, error_message); a message is its marker
\* followed by the name of the check that built it and the value it quotes
validate_sql(sql) ==
  LET sql_upper == Upper(sql)
  IN  IF HasDangerous(sql_upper)
        THEN [valid |-> FALSE,
              msg |-> <<CROSS, "dangerous">> \o FirstDangerous(sql_upper)]
      ELSE IF /\ \/ Contains(sql_upper, K_SELECT \o <<" ", "*">>)
                 \/ Contains(sql_upper, K_SELECT \o <<"\n", "*">>)
              /\ ~Contains(sql_upper, K_LIMIT)
              /\ ~Contains(sql_upper, <<"C", "O", "U", "N", "T", "(", "*", ")">>)
              /\ ~Contains(sql_upper, <<"C", "O", "U", "N", "T", " ", "(", "*", ")">>)
        THEN [valid |-> FALSE, msg |-> <<CROSS, "select_star">> \o IntToStr(max_rows)]
      ELSE IF /\ Contains(sql_upper, K_SELECT)
              /\ ~Contains(sql_upper, K_LIMIT)
              /\ ~HasAgg(sql_upper)
        THEN [valid |-> FALSE, msg |-> <<WARN, "add_limit">> \o IntToStr(max_rows)]
      ELSE IF /\ Contains(sql_upper, K_LIMIT)
              /\ LimitValue(sql_upper).ok
              /\ LimitValue(sql_upper).val > max_rows
        THEN [valid |-> FALSE,
              msg |-> <<CROSS, "limit_exceeds">> \o IntToStr(LimitValue(sql_upper).val)]
      ELSE IF CountSemi(sql) > 1
        THEN [valid |-> FALSE, msg |-> <<CROSS, "multiple_statements">>]
      ELSE [valid |-> TRUE, msg |-> <<>>]

(***************************************************************************)
(* clean_sql                                                               *)
(***************************************************************************)

\* the last element of a non-empty list: parts[-1]
Last(parts) == parts[Len(parts)]

\* the markdown step: the text kept from the stripped input
Unfence(sql) ==
  IF Contains(Lower(sql), FENCE_SQL)
    THEN SplitOn(Last(SplitOn(sql, FENCE_SQL)), FENCE)[1]
  ELSE IF Contains(sql, FENCE)
    THEN SplitOn(SplitOn(sql, FENCE)[2], FENCE)[1]
  ELSE sql

\* the loop over lines: each stripped, empty lines and "--" lines skipped
RECURSIVE KeepLines(_)
KeepLines(lines) ==
  IF lines = <<>> THEN <<>>
  ELSE LET line == Strip(Head(lines))
       IN  IF line # <<>> /\ ~StartsWith(line, <<"-", "-">>)
             THEN <<line>> \o KeepLines(Tail(lines))
             ELSE KeepLines(Tail(lines))

\* the loop over sql_keywords: cut at the first occurrence of the first
\* keyword of the list, in list order, that the text contains
RECURSIVE CutAtKeyword(_, _)
CutAtKeyword(sql, i) ==
  IF i > Len(sql_keywords) THEN sql
  ELSE IF Contains(Upper(sql), sql_keywords[i])
    THEN From(sql, IndexOf(Upper(sql), sql_keywords[i]))
  ELSE CutAtKeyword(sql, i + 1)

\* clean_sql(sql)
clean_sql(sql) ==
  LET unfenced == Unfence(Strip(sql))
      joined   == JoinSpace(KeepLines(SplitOn(Strip(unfenced), <<"\n">>)))
      cut      == CutAtKeyword(joined, 1)
  IN  RStripSemi(Strip(cut)) \o <<";">>

(***************************************************************************)
(* auto_add_limit                                                          *)
(***************************************************************************)

\* the clause auto_add_limit appends: f" LIMIT {self.max_rows};"
LimitSuffix == <<" ">> \o K_LIMIT \o <<" ">> \o IntToStr(max_rows) \o <<";">>

\* auto_add_limit(sql)
auto_add_limit(sql) ==
  LET sql_upper == Upper(sql)
  IN  IF Contains(sql_upper, K_LIMIT) THEN sql
      ELSE IF HasAgg(sql_upper) THEN sql
      ELSE IF \E cmd \in skip_cmds : Contains(sql_upper, cmd) THEN sql
      ELSE IF Contains(sql_upper, K_SELECT) THEN RStripSemi(sql) \o LimitSuffix
      ELSE sql

(***************************************************************************)
(* Inputs: the text the language model returns                             *)
(***************************************************************************)

\* the largest number of fragments a model output is made of
MaxFrags == 3

W_SELECT_A   == K_SELECT \o <<" ", "a", " ", "F", "R", "O", "M", " ", "t">>
W_SELECT_ALL == K_SELECT \o <<" ", "*", " ", "F", "R", "O", "M", " ", "t">>
W_SELECT_CNT == K_SELECT \o <<" ", "C", "O", "U", "N", "T", "(", "*", ")", " ", "F", "R", "O", "M", " ", "t">>
W_LIMIT_5    == <<" ">> \o K_LIMIT \o <<" ", "5">>
W_LIMIT_500  == <<" ">> \o K_LIMIT \o <<" ", "5", "0", "0">>
W_LIMIT_LOW  == <<" ", "l", "i", "m", "i", "t", " ", "1", "0", "1">>
W_UNION      == W_LIMIT_5 \o <<" ", "U", "N", "I", "O", "N", " ">> \o K_SELECT \o <<" ", "b", " ", "F", "R", "O", "M", " ", "u">>
W_UNLIMITED  == <<" ", "W", "H", "E", "R", "E", " ", "u", "n", "l", "i", "m", "i", "t", "e", "d", " ", "=", " ", "1">>
W_UPDATED_AT == <<" ", "W", "H", "E", "R", "E", " ", "u", "p", "d", "a", "t", "e", "d", "_", "a", "t", " ", ">", " ", "0">>
W_SEMI       == <<";">>
W_SPACE      == <<" ">>
W_NEWLINE    == <<"\n">>
W_QUOTE      == <<"'">>
W_COL        == <<"c", "o", "l", "_">>
W_BOUNDED    == K_SELECT \o <<" ", "a", " ", "F", "R", "O", "M", " ", "t">> \o W_LIMIT_5
W_FENCE_UP   == <<BT, BT, BT, "S", "Q", "L">>
W_COMMENT    == <<"-", "-", " ", "n", "o", "t", "e">>
W_PROSE      == <<"H", "e", "r", "e", " ", "i", "t", " ", "i", "s", ":", " ">>
W_VACUUM     == <<"V", "A", "C", "U", "U", "M">>
W_WITH       == K_WITH \o <<" ", "c", " ", "A", "S", " ", "(", "x", ")", " ">>
W_SELECT_LOW == <<"s", "e", "l", "e", "c", "t", " ", "1">>
W_INSERT     == K_INSERT \o <<" ", "I", "N", "T", "O", " ", "t", " ", "V", "A", "L", "U", "E", "S", " ", "(", "1", ")">>
W_UPDATE     == K_UPDATE \o <<" ", "t", " ", "S", "E", "T", " ", "a", " ", "=", " ", "1">>
W_DELETE     == K_DELETE \o <<" ", "F", "R", "O", "M", " ", "t">>
W_UPDATE_LOW == <<"u", "p", "d", "a", "t", "e", " ", "t", " ", "s", "e", "t", " ", "a", "=", "2">>
W_WHERE      == <<" ", "W", "H", "E", "R", "E", " ", "i", "d", " ", "=", " ", "1">>

\* statements around one keyword of the denylist, in upper and lower case:
\* leading, after a clause, in an identifier (col_), in a literal ('..')
DenyFrags(k) == {W_BOUNDED, W_SPACE, W_QUOTE, W_COL, k, Lower(k)}

\* statements with and without row caps and aggregates
LimitFrags ==
  {W_SELECT_A, W_SELECT_ALL, W_SELECT_CNT, W_LIMIT_500, W_LIMIT_LOW,
   W_UNION, W_UNLIMITED, W_UPDATED_AT, W_SEMI}

\* stacked statements, prose, and text that is no statement
GateFrags ==
  {W_BOUNDED, W_SEMI, W_SPACE, W_NEWLINE, W_PROSE, W_VACUUM, W_SELECT_LOW}

\* data-mutating statements
MutateFrags == {W_INSERT, W_UPDATE, W_DELETE, W_UPDATE_LOW, W_WHERE, W_SEMI}

\* fenced and commented model output
CleanFrags ==
  {FENCE_SQL, W_FENCE_UP, FENCE, W_NEWLINE, W_COMMENT, W_PROSE, W_BOUNDED,
   W_SELECT_LOW, W_SEMI, W_SPACE, W_VACUUM, W_WITH}

\* all concatenations of at most n fragments of F
RECURSIVE Concats(_, _)
Concats(F, n) ==
  IF n = 0 THEN {<<>>}
  ELSE LET shorter == Concats(F, n - 1)
       IN  shorter \cup {s \o f : s \in shorter, f \in F}

\* the model outputs of the runs of ask
Inputs ==
  UNION {Concats(DenyFrags(dangerous_keywords[i]), MaxFrags) :
           i \in 1..Len(dangerous_keywords)}
    \cup Concats(LimitFrags, MaxFrags)
    \cup Concats(GateFrags, MaxFrags)
    \cup Concats(MutateFrags, MaxFrags)

\* the arguments of the direct calls of the methods
UnitInputs == Inputs \cup Concats(CleanFrags, MaxFrags)

(***************************************************************************)
(* State                                                                   *)
(***************************************************************************)

VARIABLES
  raw,           \* sql_response.content: the text the model returned
  sql,           \* the local sql of run_sql
  pc,            \* where ask / run_sql stands
  verdict,       \* (is_valid, error_msg) of run_sql
  platform,      \* what run_sql finds at step 4: SIGALRM or not, main thread or not
  alarm,         \* the process's SIGALRM timer: "off", "armed", "fired"
  db_mode,       \* what self.db.run does in this call
  ret,           \* the value a return statement of the try block has computed
  result,        \* what run_sql returned to ask
  executed,      \* the statements passed to self.db.run, in order
  chat_history,  \* self.chat_history: the status of each entry
  answer,        \* what ask returned
  unit,          \* the outcome of a direct call of one method
  turn,          \* the number of the current call of ask in this session
  pc_b           \* where run_sql of a second session of the process stands

vars ==
  <<raw, sql, pc, verdict, platform, alarm, db_mode, ret, result, executed,
    chat_history, answer, unit, turn, pc_b>>

\* no value yet
None == <<"None">>

\* str(self.db.run(sql)) of a query that succeeds
DbResult == <<"[", "(", "1", ",", ")", "]">>

TimeoutMsg == <<CROSS, "timeout">>
ErrorMsg   == <<CROSS, "sql_error">>
LlmErrorMsg == <<CROSS, "llm_error">>

\* run_sql has not reached step 3
NoVerdict == [valid |-> FALSE, msg |-> None]

NoUnit == [fn |-> "none", arg |-> <<>>, out |-> <<>>]

InitWith(S) ==
  /\ raw \in S
  /\ sql = None
  /\ pc = "start"
  /\ verdict = NoVerdict
  /\ platform = "unobserved"
  /\ alarm = "off"
  /\ db_mode = "none"
  /\ ret = None
  /\ result = None
  /\ executed = <<>>
  /\ chat_history = <<>>
  /\ answer = None
  /\ unit = NoUnit
  /\ turn = 1
  /\ pc_b = "idle"

Init == InitWith(Inputs)

(***************************************************************************)
(* ask, up to the call of run_sql                                          *)
(***************************************************************************)

\* ask: self.llm.invoke returns; sql_query = content.strip(); run_sql is entered
Generate ==
  /\ pc = "start"
  /\ pc' = "clean"
  /\ sql' = Strip(raw)
  /\ UNCHANGED <<raw, verdict, platform, alarm, db_mode, ret, result, executed,
                 chat_history, answer, unit>>
  /\ UNCHANGED <<turn, pc_b>>

\* ask: self.llm.invoke raises; ask returns the message, nothing is stored
GenerateFail ==
  /\ pc = "start"
  /\ pc' = "done"
  /\ answer' = LlmErrorMsg
  /\ UNCHANGED <<raw, sql, verdict, platform, alarm, db_mode, ret, result,
                 executed, chat_history, unit>>
  /\ UNCHANGED <<turn, pc_b>>

(***************************************************************************)
(* run_sql, steps 1 to 3                                                   *)
(***************************************************************************)

CleanSql ==
  /\ pc = "clean"
  /\ sql' = clean_sql(sql)
  /\ pc' = "limit"
  /\ UNCHANGED <<raw, verdict, platform, alarm, db_mode, ret, result, executed,
                 chat_history, answer, unit>>
  /\ UNCHANGED <<turn, pc_b>>

AutoAddLimit ==
  /\ pc = "limit"
  /\ sql' = auto_add_limit(sql)
  /\ pc' = "validate"
  /\ UNCHANGED <<raw, verdict, platform, alarm, db_mode, ret, result, executed,
                 chat_history, answer, unit>>
  /\ UNCHANGED <<turn, pc_b>>

\* step 3: a rejection is returned as the message
ValidateSql ==
  /\ pc = "validate"
  /\ verdict' = validate_sql(sql)
  /\ IF verdict'.valid
       THEN pc' = "arm" /\ result' = result
       ELSE pc' = "returned" /\ result' = verdict'.msg
  /\ UNCHANGED <<raw, sql, platform, alarm, db_mode, ret, executed,
                 chat_history, answer, unit>>
  /\ UNCHANGED <<turn, pc_b>>

(***************************************************************************)
(* run_sql, step 4: the call of the database under the alarm               *)
(***************************************************************************)

\* lines 222-224 on a platform with SIGALRM, called from the main thread:
\* the handler is installed and the alarm armed
ArmMain ==
  /\ pc = "arm"
  /\ platform # "no_sigalrm"
  /\ platform' = "posix_main"
  /\ alarm' = "armed"
  /\ pc' = "db"
  /\ UNCHANGED <<raw, sql, verdict, db_mode, ret, result, executed,
                 chat_history, answer, unit>>
  /\ UNCHANGED <<turn, pc_b>>

\* lines 222-223 off the main thread: signal.signal raises ValueError, which
\* the except Exception clause catches
ArmThread ==
  /\ pc = "arm"
  /\ platform # "no_sigalrm"
  /\ platform' = "posix_thread"
  /\ pc' = "except_error"
  /\ UNCHANGED <<raw, sql, verdict, alarm, db_mode, ret, result, executed,
                 chat_history, answer, unit>>
  /\ UNCHANGED <<turn, pc_b>>

\* line 222 on a platform without SIGALRM: nothing is armed
ArmNone ==
  /\ pc = "arm"
  /\ platform \in {"unobserved", "no_sigalrm"}
  /\ platform' = "no_sigalrm"
  /\ pc' = "db"
  /\ UNCHANGED <<raw, sql, verdict, alarm, db_mode, ret, result, executed,
                 chat_history, answer, unit>>
  /\ UNCHANGED <<turn, pc_b>>

\* what a call of self.db.run can do: return, raise, or block for longer
\* than any deadline, either where the interpreter can run a signal handler
\* ("blocks") or inside driver code where it cannot ("blocks_deaf")
DbModes == {"returns", "raises", "blocks", "blocks_deaf"}

\* a variant that calls the database again after a timeout
DbCallRetry ==
  /\ pc \in {"db", "except_timeout"}
  /\ Len(executed) < 2
  /\ db_mode' \in DbModes
  /\ executed' = Append(executed, sql)
  /\ pc' = "in_db"
  /\ UNCHANGED <<raw, sql, verdict, platform, alarm, ret, result,
                 chat_history, answer, unit>>
  /\ UNCHANGED <<turn, pc_b>>

\* lines 226-227: self.db.run(sql) is entered
DbCall ==
  /\ pc = "db"
  /\ db_mode' \in DbModes
  /\ executed' = Append(executed, sql)
  /\ pc' = "in_db"
  /\ UNCHANGED <<raw, sql, verdict, platform, alarm, ret, result,
                 chat_history, answer, unit>>
  /\ UNCHANGED <<turn, pc_b>>

\* line 227: the call returns its rows
DbReturn ==
  /\ pc = "in_db"
  /\ db_mode = "returns"
  /\ pc' = "after_db"
  /\ UNCHANGED <<raw, sql, verdict, platform, alarm, db_mode, ret, result,
                 executed, chat_history, answer, unit>>
  /\ UNCHANGED <<turn, pc_b>>

\* line 227: the call raises a database error
DbRaise ==
  /\ pc = "in_db"
  /\ db_mode = "raises"
  /\ pc' = "except_error"
  /\ UNCHANGED <<raw, sql, verdict, platform, alarm, db_mode, ret, result,
                 executed, chat_history, answer, unit>>
  /\ UNCHANGED <<turn, pc_b>>

\* the points of run_sql at which the interpreter runs a handler
CanDeliver ==
  \/ pc \in {"db", "after_db", "except_error", "finally"}
  \/ pc = "in_db" /\ db_mode # "blocks_deaf"

\* the alarm goes off and timeout_handler raises TimeoutException where
\* run_sql stands: in the try block the except TimeoutException clause takes
\* it; in the except Exception clause and in the finally clause nothing does
AlarmFire ==
  /\ alarm = "armed"
  /\ CanDeliver
  /\ alarm' = "fired"
  /\ IF pc \in {"db", "in_db", "after_db"}
       THEN pc' = "except_timeout" /\ ret' = ret
       ELSE IF pc = "except_error"
         THEN pc' = "finally" /\ ret' = <<"raise", "TimeoutException">>
       ELSE pc' = "raised" /\ ret' = <<"raise", "TimeoutException">>
  /\ UNCHANGED <<raw, sql, verdict, platform, db_mode, result, executed,
                 chat_history, answer, unit>>
  /\ UNCHANGED <<turn, pc_b>>

\* signal.alarm(0), where the platform has SIGALRM
Disarmed == IF platform # "no_sigalrm" /\ alarm = "armed" THEN "off" ELSE alarm

\* lines 228-244: the alarm is cancelled and the result is the return value
AfterDb ==
  /\ pc = "after_db"
  /\ alarm' = Disarmed
  /\ ret' = DbResult
  /\ pc' = "finally"
  /\ UNCHANGED <<raw, sql, verdict, platform, db_mode, result, executed,
                 chat_history, answer, unit>>
  /\ UNCHANGED <<turn, pc_b>>

\* lines 246-247
ExceptTimeout ==
  /\ pc = "except_timeout"
  /\ ret' = TimeoutMsg
  /\ pc' = "finally"
  /\ UNCHANGED <<raw, sql, verdict, platform, alarm, db_mode, result, executed,
                 chat_history, answer, unit>>
  /\ UNCHANGED <<turn, pc_b>>

\* lines 249-250
ExceptError ==
  /\ pc = "except_error"
  /\ ret' = ErrorMsg
  /\ pc' = "finally"
  /\ UNCHANGED <<raw, sql, verdict, platform, alarm, db_mode, result, executed,
                 chat_history, answer, unit>>
  /\ UNCHANGED <<turn, pc_b>>

\* lines 252-255: the alarm is cancelled; run_sql returns the value computed,
\* or the exception in flight leaves run_sql and ask
Finally ==
  /\ pc = "finally"
  /\ alarm' = Disarmed
  /\ IF ret[1] = "raise"
       THEN pc' = "raised" /\ result' = result
       ELSE pc' = "returned" /\ result' = ret
  /\ UNCHANGED <<raw, sql, verdict, platform, db_mode, ret, executed,
                 chat_history, answer, unit>>
  /\ UNCHANGED <<turn, pc_b>>

(***************************************************************************)
(* ask, after run_sql returned                                             *)
(***************************************************************************)

\* self.max_history, the default of __init__
max_history == 20

\* chat_history[-max_history:]
LastN(h, n) == IF Len(h) > n THEN SubSeq(h, Len(h) - n + 1, Len(h)) ELSE h

\* lines 309-323: a result that starts with the failure marker is stored as
\* failed and returned as it is
AskFailed ==
  /\ pc = "returned"
  /\ StartsWith(result, <<CROSS>>)
  /\ chat_history' = Append(chat_history, "failed")
  /\ answer' = result
  /\ pc' = "done"
  /\ UNCHANGED <<raw, sql, verdict, platform, alarm, db_mode, ret, result,
                 executed, unit>>
  /\ UNCHANGED <<turn, pc_b>>

\* lines 325-359: the answer is generated (or the fallback text, if the model
\* call raises), the entry stored as success, the history trimmed
AskSuccess ==
  /\ pc = "returned"
  /\ ~StartsWith(result, <<CROSS>>)
  /\ \E a \in {<<"generated">>, <<"fallback">>} : answer' = a
  /\ chat_history' = LastN(Append(chat_history, "success"), max_history)
  /\ pc' = "done"
  /\ UNCHANGED <<raw, sql, verdict, platform, alarm, db_mode, ret, result,
                 executed, unit>>
  /\ UNCHANGED <<turn, pc_b>>

(***************************************************************************)
(* Direct calls of the methods                                             *)
(***************************************************************************)

\* validate_sql(raw), called on its own
UnitValidate ==
  /\ pc = "start"
  /\ unit' = [fn |-> "validate_sql", arg |-> raw, out |-> validate_sql(raw)]
  /\ pc' = "unit"
  /\ UNCHANGED <<raw, sql, verdict, platform, alarm, db_mode, ret, result,
                 executed, chat_history, answer>>
  /\ UNCHANGED <<turn, pc_b>>

\* auto_add_limit(raw), called on its own
UnitAutoAddLimit ==
  /\ pc = "start"
  /\ unit' = [fn |-> "auto_add_limit", arg |-> raw, out |-> auto_add_limit(raw)]
  /\ pc' = "unit"
  /\ UNCHANGED <<raw, sql, verdict, platform, alarm, db_mode, ret, result,
                 executed, chat_history, answer>>
  /\ UNCHANGED <<turn, pc_b>>

\* clean_sql(raw), called on its own
UnitCleanSql ==
  /\ pc = "start"
  /\ unit' = [fn |-> "clean_sql", arg |-> raw, out |-> clean_sql(raw)]
  /\ pc' = "unit"
  /\ UNCHANGED <<raw, sql, verdict, platform, alarm, db_mode, ret, result,
                 executed, chat_history, answer>>
  /\ UNCHANGED <<turn, pc_b>>

Next ==
  \/ Generate
  \/ GenerateFail
  \/ CleanSql
  \/ AutoAddLimit
  \/ ValidateSql
  \/ ArmMain
  \/ ArmThread
  \/ ArmNone
  \/ DbCall
  \/ DbReturn
  \/ DbRaise
  \/ AlarmFire
  \/ AfterDb
  \/ ExceptTimeout
  \/ ExceptError
  \/ Finally
  \/ AskFailed
  \/ AskSuccess
  \/ UnitValidate
  \/ UnitAutoAddLimit
  \/ UnitCleanSql

Spec == Init /\ [][Next]_vars

\* the methods called on their own, on a wider set of texts
UnitInit == InitWith(UnitInputs)

UnitNext ==
  \/ UnitValidate
  \/ UnitAutoAddLimit
  \/ UnitCleanSql

UnitSpec == UnitInit /\ [][UnitNext]_vars

\* a few model outputs, for the runs checked under fairness
FairInputs ==
  {W_BOUNDED, W_SELECT_A, W_SELECT_A \o W_UPDATED_AT, W_UPDATE, W_DELETE, W_VACUUM}

FairInit == InitWith(FairInputs)

\* the steps the interpreter takes by itself once run_sql has reached step 4
ExecutorStep ==
  \/ ArmMain \/ ArmThread \/ ArmNone \/ DbCall \/ AfterDb \/ ExceptTimeout
  \/ ExceptError \/ Finally \/ AskFailed \/ AskSuccess

\* from step 4 on the interpreter keeps running, a call that returns or raises
\* does so, and an armed alarm goes off once the interpreter can run its handler
FairSpec ==
  /\ FairInit
  /\ [][Next]_vars
  /\ WF_vars(ExecutorStep)
  /\ WF_vars(DbReturn \/ DbRaise)
  /\ WF_vars(AlarmFire)

(***************************************************************************)
(* A session over several turns: the loop of main and clear_history        *)
(***************************************************************************)

\* the largest number of calls of ask in one session
MaxTurns == 3

\* the model outputs of the turns of a session
TurnInputs == {W_BOUNDED, W_DELETE, W_VACUUM}

\* load_history: the lengths of the history files the session starts from
StoredLens == {0, max_history - 1, max_history}

\* the history file of n entries stored by earlier sessions
Stored(n) == [i \in 1..n |-> "success"]

\* __init__: self.chat_history = self.load_history()
SessionInit ==
  /\ raw \in TurnInputs
  /\ sql = None
  /\ pc = "start"
  /\ verdict = NoVerdict
  /\ platform = "unobserved"
  /\ alarm = "off"
  /\ db_mode = "none"
  /\ ret = None
  /\ result = None
  /\ executed = <<>>
  /\ chat_history \in {Stored(n) : n \in StoredLens}
  /\ answer = None
  /\ unit = NoUnit
  /\ turn = 1
  /\ pc_b = "idle"

\* the loop of main: ask has returned, or its exception was caught by the
\* loop, and the next question is asked; the locals of ask and run_sql are new
NextTurn ==
  /\ pc \in {"done", "raised"}
  /\ turn < MaxTurns
  /\ turn' = turn + 1
  /\ raw' \in TurnInputs
  /\ pc' = "start"
  /\ sql' = None
  /\ verdict' = NoVerdict
  /\ alarm' = IF alarm = "fired" THEN "off" ELSE alarm
  /\ db_mode' = "none"
  /\ ret' = None
  /\ result' = None
  /\ executed' = <<>>
  /\ answer' = None
  /\ UNCHANGED <<platform, chat_history, unit, pc_b>>

\* clear_history, between two questions
clear_history ==
  /\ pc \in {"done", "raised"}
  /\ chat_history' = <<>>
  /\ UNCHANGED <<raw, sql, pc, verdict, platform, alarm, db_mode, ret, result,
                 executed, answer, unit, turn, pc_b>>

SessionNext ==
  \/ Next
  \/ NextTurn
  \/ clear_history

SessionSpec == SessionInit /\ [][SessionNext]_vars

(***************************************************************************)
(* A second session in the same process, in a thread of its own            *)
(***************************************************************************)

\* run_sql of the second session reaches lines 222-223 in a thread that is
\* not the main thread (the first session holds it): signal.signal raises
\* ValueError, which the except Exception clause catches
B_ArmThread ==
  /\ pc_b = "idle"
  /\ platform = "posix_main"
  /\ pc_b' = "except_error"
  /\ UNCHANGED <<raw, sql, pc, verdict, platform, alarm, db_mode, ret, result,
                 executed, chat_history, answer, unit, turn>>

\* line 222 on a platform without SIGALRM: the second session arms nothing
\* and calls the database
B_ArmNone ==
  /\ pc_b = "idle"
  /\ platform = "no_sigalrm"
  /\ pc_b' = "db"
  /\ UNCHANGED <<raw, sql, pc, verdict, platform, alarm, db_mode, ret, result,
                 executed, chat_history, answer, unit, turn>>

\* lines 227-244 of the second session: its call returns
B_DbReturn ==
  /\ pc_b = "db"
  /\ pc_b' = "finally"
  /\ UNCHANGED <<raw, sql, pc, verdict, platform, alarm, db_mode, ret, result,
                 executed, chat_history, answer, unit, turn>>

\* lines 249-250 of the second session
B_ExceptError ==
  /\ pc_b = "except_error"
  /\ pc_b' = "finally"
  /\ UNCHANGED <<raw, sql, pc, verdict, platform, alarm, db_mode, ret, result,
                 executed, chat_history, answer, unit, turn>>

\* lines 252-255 of the second session: signal.alarm(0), which any thread may
\* call, acts on the one timer of the process
B_Finally ==
  /\ pc_b = "finally"
  /\ alarm' = Disarmed
  /\ pc_b' = "returned"
  /\ UNCHANGED <<raw, sql, pc, verdict, platform, db_mode, ret, result,
                 executed, chat_history, answer, unit, turn>>

PairNext ==
  \/ Next
  \/ B_ArmThread
  \/ B_ArmNone
  \/ B_DbReturn
  \/ B_ExceptError
  \/ B_Finally

PairSpec == FairInit /\ [][PairNext]_vars

(***************************************************************************)
(* Vocabulary of the properties                                            *)
(***************************************************************************)

\* the destructive set of the specification
DestructiveSet ==
  {K_DROP, K_TRUNCATE, K_DELETE, K_ALTER, K_CREATE, K_GRANT, K_REVOKE}

\* the aggregate markers of the specification
AggregateMarkers ==
  { <<"C", "O", "U", "N", "T", "(">>, <<"S", "U", "M", "(">>,
    <<"A", "V", "G", "(">>, <<"M", "A", "X", "(">>, <<"M", "I", "N", "(">> }

\* the leading keywords the sanitizer recognizes
RecognizedKeywords == {K_SELECT, K_INSERT, K_UPDATE, K_DELETE, K_WITH}

\* the data-mutating verbs
MutationVerbs == {K_INSERT, K_UPDATE, K_DELETE}

\* the number of semicolons of a text
NumSemis(s) == Cardinality({i \in 1..Len(s) : s[i] = ";"})

\* the text contains the word, in any letter case
Mentions(s, w) == Contains(Upper(s), w)

\* the leading run of digits of a text
RECURSIVE LeadingDigits(_)
LeadingDigits(t) ==
  IF t # <<>> /\ Head(t) \in Digits
    THEN <<Head(t)>> \o LeadingDigits(Tail(t))
    ELSE <<>>

\* a LIMIT clause starts at position i of s: the word LIMIT, in any letter
\* case, at the start of a word, followed by white space and a number that
\* ends the text or is followed by white space or a semicolon
LimitClauseAt(s, i) ==
  /\ MatchAt(Upper(s), K_LIMIT, i)
  /\ i = 1 \/ IsSpace(s[i - 1])
  /\ i + Len(K_LIMIT) <= Len(s)
  /\ IsSpace(s[i + Len(K_LIMIT)])
  /\ LET rest == LStrip(From(s, i + Len(K_LIMIT)))
         num  == LeadingDigits(rest)
     IN  /\ num # <<>>
         /\ Len(rest) > Len(num) => (IsSpace(rest[Len(num) + 1]) \/ rest[Len(num) + 1] = ";")

\* the value of the LIMIT clause at position i
LimitClauseValue(s, i) ==
  DigitsVal(LeadingDigits(LStrip(From(s, i + Len(K_LIMIT)))), 0)

HasLimitClause(s) == \E i \in 1..Len(s) : LimitClauseAt(s, i)

HasAggregateMarker(s) == \E a \in AggregateMarkers : Mentions(s, a)

\* t ends with p
EndsWith(t, p) == MatchAt(t, p, Len(t) - Len(p) + 1)

\* the statements run_sql has validated or is about to return a verdict on
Validated == verdict # NoVerdict

\* run_sql ended without a result for the question
NonSuccess ==
  \/ Validated /\ ~verdict.valid
  \/ result = TimeoutMsg
  \/ result = ErrorMsg

(***************************************************************************)
(* Properties                                                              *)
(***************************************************************************)

\* C1 - Denylist completeness: a statement whose upper-cased text contains a
\* keyword of the destructive set anywhere is rejected by validate_sql, in a
\* direct call and in run_sql, and no such statement is passed to the database.
C1_DenylistComplete ==
  /\ unit.fn = "validate_sql" =>
       LET text == Upper(unit.arg)
       IN  \A k \in DestructiveSet : Contains(text, k) => ~unit.out.valid
  /\ Validated =>
       LET text == Upper(sql)
       IN  \A k \in DestructiveSet : Contains(text, k) => ~verdict.valid
  /\ \A i \in 1..Len(executed) :
       LET text == Upper(executed[i])
       IN  \A k \in DestructiveSet : ~Contains(text, k)

\* run_sql has rejected a statement that holds a keyword of the set in lower
\* case inside an identifier
C1_Witness ==
  /\ pc = "returned"
  /\ Validated
  /\ Contains(sql, W_COL \o Lower(K_REVOKE))
  /\ ~verdict.valid
  /\ result = <<CROSS, "dangerous">> \o K_REVOKE

\* C2 - Missing-bound invariant: every statement passed to the database that
\* contains SELECT also contains a LIMIT clause or an aggregate marker.
C2_MissingBound ==
  \A i \in 1..Len(executed) :
    Mentions(executed[i], K_SELECT) =>
      HasLimitClause(executed[i]) \/ HasAggregateMarker(executed[i])

\* C3 - Injection safety: for a SELECT statement with no LIMIT and no aggregate
\* marker, the output of auto_add_limit ends with a LIMIT clause of value
\* max_rows followed by the only semicolon of the output.
C3_InjectionSafety ==
  ( /\ unit.fn = "auto_add_limit"
    /\ StartsWith(Upper(unit.arg), K_SELECT)
    /\ ~Mentions(unit.arg, K_LIMIT)
    /\ ~HasAggregateMarker(unit.arg)
    /\ NumSemis(RStripSemi(unit.arg)) = 0 )
  => /\ EndsWith(unit.out, <<" ">> \o K_LIMIT \o <<" ">> \o IntToStr(max_rows) \o <<";">>)
     /\ NumSemis(unit.out) = 1

\* C4 - Ceiling enforcement: a statement with a LIMIT clause, anywhere in it,
\* whose value is greater than max_rows is rejected by validate_sql, in a
\* direct call and in run_sql, and is never passed to the database.
C4_CeilingEnforced ==
  /\ unit.fn = "validate_sql" =>
       \A i \in 1..Len(unit.arg) :
         (LimitClauseAt(unit.arg, i) /\ LimitClauseValue(unit.arg, i) > max_rows)
           => ~unit.out.valid
  /\ Validated =>
       \A i \in 1..Len(sql) :
         (LimitClauseAt(sql, i) /\ LimitClauseValue(sql, i) > max_rows)
           => ~verdict.valid
  /\ \A n \in 1..Len(executed) : \A i \in 1..Len(executed[n]) :
       LimitClauseAt(executed[n], i) => LimitClauseValue(executed[n], i) <= max_rows

\* C5 - Multi-statement defense: a statement with more than one semicolon is
\* rejected by validate_sql, in a direct call and after clean_sql and
\* auto_add_limit in run_sql, and is never passed to the database.
C5_MultiStatementRejected ==
  /\ (unit.fn = "validate_sql" /\ NumSemis(unit.arg) > 1) => ~unit.out.valid
  /\ (Validated /\ NumSemis(sql) > 1) => ~verdict.valid
  /\ \A i \in 1..Len(executed) : NumSemis(executed[i]) <= 1

\* run_sql has rejected two stacked statements, each valid by itself, by the
\* multi-statement check
C5_Witness ==
  /\ pc = "returned"
  /\ raw = W_BOUNDED \o W_SEMI \o W_BOUNDED
  /\ NumSemis(sql) = 2
  /\ result = <<CROSS, "multiple_statements">>
  /\ executed = <<>>

\* the first half of C6: a one-line text with no recognized keyword, no fence
\* and no comment marker leaves clean_sql stripped and with one semicolon
C6_PassThrough ==
  ( /\ unit.fn = "clean_sql"
    /\ \A k \in RecognizedKeywords : ~Mentions(unit.arg, k)
    /\ \A i \in 1..Len(unit.arg) : unit.arg[i] \notin {"\n", BT}
    /\ ~StartsWith(Strip(unit.arg), <<"-", "-">>) )
  => unit.out = RStripSemi(Strip(unit.arg)) \o <<";">>

\* C6 - Text with no recognized leading keyword: it leaves clean_sql as it is
\* but for the terminating semicolon, validate_sql rejects it, and it is never
\* passed to the database.
C6_NoKeywordRejected ==
  /\ C6_PassThrough
  /\ (Validated /\ \A k \in RecognizedKeywords : ~Mentions(sql, k)) => ~verdict.valid
  /\ \A i \in 1..Len(executed) : \E k \in RecognizedKeywords : Mentions(executed[i], k)

\* C7 - Data-mutation verbs: a statement whose leading verb is INSERT, UPDATE
\* or DELETE is rejected by validate_sql and is never passed to the database.
C7_MutationRejected ==
  /\ (Validated /\ \E k \in MutationVerbs : StartsWith(Upper(sql), k)) => ~verdict.valid
  /\ \A i \in 1..Len(executed) :
       \A k \in MutationVerbs : ~StartsWith(Upper(executed[i]), k)

\* C8 - Failure marker: every rejection, timeout or database error that
\* run_sql returns starts with the marker ask tests for; ask stores the turn
\* as failed and returns the message as it is.
C8_FailureMarker ==
  /\ (pc = "returned" /\ NonSuccess) => StartsWith(result, <<CROSS>>)
  /\ (pc = "done" /\ result # None /\ NonSuccess) =>
       /\ chat_history # <<>>
       /\ Last(chat_history) = "failed"
       /\ answer = result

\* C9 - Timeout: a database call that blocks for longer than the deadline
\* leads to run_sql returning the timeout message, whatever the platform and
\* the calling context.
C9_TimeoutReturned ==
  (pc = "in_db" /\ db_mode \in {"blocks", "blocks_deaf"})
    ~> (pc = "returned" /\ result = TimeoutMsg)

\* C10 - Terminal-state discipline: a call of run_sql that reached step 4 ends
\* by returning the result, the timeout message or the error message, with the
\* alarm disarmed.
C10_OneTerminalState ==
  (platform # "unobserved" /\ pc \in {"returned", "raised", "done"}) =>
    /\ pc # "raised"
    /\ result \in {DbResult, TimeoutMsg, ErrorMsg}
    /\ alarm # "armed"

\* the text up to and including its first semicolon
FirstStatement(s) == SubSeq(s, 1, IndexOf(s, <<";">>))

\* the text has no fence, is one line, and is not a comment line
PlainLine(s) ==
  /\ \A i \in 1..Len(s) : s[i] \notin {"\n", BT}
  /\ ~StartsWith(Strip(s), <<"-", "-">>)

\* C11 - Single-statement output of the sanitizer: the text clean_sql returns
\* holds at most one semicolon, as its last character; of a statement followed
\* by a semicolon and trailing prose, the statement and its semicolon are kept
\* and the prose is dropped.
C11_SingleStatement ==
  unit.fn = "clean_sql" =>
    /\ unit.out # <<>>
    /\ unit.out[Len(unit.out)] = ";"
    /\ NumSemis(unit.out) <= 1
    /\ ( /\ PlainLine(unit.arg)
         /\ StartsWith(Upper(Strip(unit.arg)), K_SELECT)
         /\ NumSemis(unit.arg) >= 1 )
       => unit.out = FirstStatement(Strip(unit.arg))

\* what follows the first opening delimiter and its language tag, up to the
\* next delimiter or, without one, to the end of the text
FirstFenceContent(s) ==
  LET after == From(s, IndexOf(s, FENCE) + Len(FENCE))
      body  == IF StartsWith(Lower(after), <<"s", "q", "l">>) THEN From(after, 4) ELSE after
  IN  IF Contains(body, FENCE) THEN SubSeq(body, 1, IndexOf(body, FENCE) - 1) ELSE body

\* C12 - Fence extraction: of a text with an opening code-fence delimiter,
\* tagged or not and in any letter case, clean_sql uses only what stands
\* between the first opening delimiter and the next delimiter (or the rest of
\* the text), and its output holds no delimiter.
C12_FenceExtraction ==
  (unit.fn = "clean_sql" /\ Contains(unit.arg, FENCE)) =>
    /\ unit.out = clean_sql(FirstFenceContent(unit.arg))
    /\ ~Contains(unit.out, FENCE)

\* the position of the earliest occurrence of a recognized keyword in s,
\* which mentions one
EarliestKeyword(s) ==
  CHOOSE i \in 1..Len(s) :
    /\ \E k \in RecognizedKeywords : MatchAt(Upper(s), k, i)
    /\ \A j \in 1..(i - 1) : \A k \in RecognizedKeywords : ~MatchAt(Upper(s), k, j)

\* C13 - First-keyword isolation: of a text that mentions a recognized keyword,
\* clean_sql drops what stands before the earliest occurrence of any of them
\* and nothing else, so the output begins with the keyword that comes first.
C13_FirstKeyword ==
  ( /\ unit.fn = "clean_sql"
    /\ PlainLine(unit.arg)
    /\ \E k \in RecognizedKeywords : Mentions(unit.arg, k) )
  => unit.out =
       RStripSemi(Strip(From(Strip(unit.arg), EarliestKeyword(Strip(unit.arg))))) \o <<";">>

\* a clean single statement: no fence, one line, a recognized keyword first,
\* one semicolon, at the end
AlreadyClean(x) ==
  /\ PlainLine(x)
  /\ \E k \in RecognizedKeywords : StartsWith(Upper(x), k)
  /\ NumSemis(x) = 1
  /\ x[Len(x)] = ";"

\* the first half of C14: cleaning the cleaned statement changes nothing
C14_Twice ==
  (unit.fn = "clean_sql" /\ AlreadyClean(unit.arg)) => clean_sql(unit.out) = unit.out

\* C14 - Idempotence of sanitation: for a clean single statement x,
\* clean_sql(clean_sql(x)) = clean_sql(x) and clean_sql(x) = x.
C14_Idempotent ==
  /\ C14_Twice
  /\ (unit.fn = "clean_sql" /\ AlreadyClean(unit.arg)) => unit.out = unit.arg

\* the model output is empty or white space only
BlankOutput == \A i \in 1..Len(raw) : raw[i] \in {" ", "\n"}

\* C15 - Empty input: when the model output is empty or reduces to nothing,
\* run_sql ends with a failure and passes nothing to the database.
C15_EmptyInputFails ==
  BlankOutput =>
    /\ executed = <<>>
    /\ pc \notin {"arm", "db", "in_db", "after_db"}
    /\ (pc \in {"returned", "done"} /\ result # None) => StartsWith(result, <<CROSS>>)

\* C16 - Sessions do not share the deadline timer: a step of run_sql of one
\* session never arms, cancels or fires the deadline of another session of
\* the process.
C16_TimerNotShared == [][pc_b' # pc_b => alarm' = alarm]_vars

\* the stages of run_sql have produced the statement from the model output
Sanitized == sql = auto_add_limit(clean_sql(Strip(raw)))

\* run_sql has ended the turn: it returned or let an exception out
TurnEnded == pc \in {"returned", "raised", "done"}

\* C17 - Gate ordering and no automatic retry: in every call of ask the
\* statement goes through clean_sql, auto_add_limit and validate_sql in this
\* order; the database is called only with the statement validate_sql allowed,
\* at most once, and never again once run_sql has ended the turn.
C17_GateOrder ==
  /\ [](/\ pc = "limit" => sql = clean_sql(Strip(raw))
        /\ pc = "validate" => Sanitized
        /\ Validated => (Sanitized /\ verdict = validate_sql(sql))
        /\ pc \in {"start", "clean", "limit", "validate"} =>
             (~Validated /\ executed = <<>>)
        /\ executed # <<>> => (verdict.valid /\ executed = <<sql>>))
  /\ [][executed' # executed => (pc = "db" \/ executed' = <<>>)]_vars
  /\ [][TurnEnded => (executed' = executed \/ turn' # turn)]_vars

\* the second turn of a session called the database once, timed out, and
\* ended as a failed turn with no second call
C17_Witness ==
  /\ turn = 2
  /\ pc = "done"
  /\ verdict.valid
  /\ executed = <<sql>>
  /\ result = TimeoutMsg
  /\ answer = TimeoutMsg

\* C18 - History bound: a session that starts with at most max_history stored
\* entries never holds more than max_history entries, whatever the turns and
\* the calls of clear_history.
C18_HistoryBound == Len(chat_history) <= max_history

====
